---- MODULE Spec2Model ----
(***************************************************************************)
(* Shamir secret sharing (Shamir.py) and the multi-party Diffie-Hellman    *)
(* protocols (script3-4part.py, scriptNpart.py, scriptNpartSequentiel.py,  *)
(* scriptNpartRound.py, scriptBench.py) as state machines.                 *)
(***************************************************************************)
EXTENDS Integers, Sequences, FiniteSets, TLC

VARIABLES
    \* ---- Shamir.py ----
    sh_pc,            \* "idle" | "shared" | "reconstructed" | "raised" |
                      \* "main_done" | "returned"
    secret,           \* the secret handed to generate_shares
    n,                \* number of shares asked for
    t,                \* threshold asked for
    poly,             \* polynomial returned by generate_shares
    shares,           \* shares returned by generate_shares: <<x, y>> pairs
    selected_shares,  \* the list handed to reconstruct_secret
    recovered_secret, \* what reconstruct_secret returned (or an error marker)
    \* ---- Diffie-Hellman scripts ----
    impl,             \* which protocol class this object is
    dh,               \* DiffieHellman instance: [p, g]
    participants,     \* list of [private_key, public_key, operations_count]
    pc,               \* "idle" | "round" | "round_end" | "verify" | "fold" |
                      \* "return" | "done" | "raised"
    round_num,        \* circular: current round
    idx,              \* loop index (1-based) of the next participant to act
    current_values,   \* circular: value vector of the previous round
    new_values,       \* circular: outputs captured so far in this round
    current_value,    \* sequential: the running value
    result,           \* value returned by the last finished run
    total_operations, \* scriptBench: self.total_operations
    final_secret,     \* scriptNpart / script3-4part: self.final_secret
    current,          \* scriptNpart demo_step_by_step: the manual fold's value
    previous_result,  \* value returned by the run before, same participants
    shared_secret,    \* scriptNpart: what the last get_shared_secret returned
    \* ---- script1simple.py: the two-party exchange ----
    ex_pc,            \* "none" | "constructed" | "alice" | "ready" |
                      \* "alice_done" | "done" | "raised"
    ex_dh,            \* DiffieHellman instance: [p, g]
    alice,            \* [private_key, public_key, shared_secret]
    bob,              \* [private_key, public_key, shared_secret]
    ex_error          \* the error that ended the exchange, or None

shamirVars == <<sh_pc, secret, n, t, poly, shares, selected_shares, recovered_secret>>
dhVars == <<impl, dh, participants, pc, round_num, idx, current_values, new_values,
            current_value, result, total_operations, final_secret, current,
            previous_result, shared_secret>>
exVars == <<ex_pc, ex_dh, alice, bob, ex_error>>
vars == <<shamirVars, dhVars, exVars>>

-----------------------------------------------------------------------------
(* Bounds of the model *)

\* generate_shares is called with 1 <= n <= MaxShares
MaxShares == 4
\* a protocol object holds at most MaxParticipants participants
MaxParticipants == 3
\* reconstruct_secret is called on lists with a repeated index of at most
\* MaxRepeatLen shares
MaxRepeatLen == 3

\* secrets and random coefficients are drawn from these samples of [0, PRIME)
SecretSamples == {0, 1234, 2088}
CoeffSamples == {0, 166, 2088}
\* private keys are drawn from these samples of [2, p-2]
KeySamples == {5, 7, 11}

-----------------------------------------------------------------------------
(* Python built-ins *)

\* Python's None
None == -1
\* ValueError raised by pow(a, -1, m) when a has no inverse modulo m
NotInvertible == -2
\* ValueError raised by "x_s, y_s = zip(*shares)" on an empty list
UnpackError == -3
\* IndexError raised by current_values[0] on an empty list
IndexError == -4
\* ValueError("Il faut au moins 2 participants")
TooFewParticipants == -5
\* ValueError raised by random.randint(a, b) when b < a
EmptyRange == -6

RECURSIVE ModPow(_, _, _)
\* pow(base, exponent, m) for exponent >= 0: binary exponentiation, result in [0, m)
ModPow(base, exponent, m) ==
    IF exponent = 0 THEN 1 % m
    ELSE LET h == ModPow(base, exponent \div 2, m)
             sq == (h * h) % m
         IN IF exponent % 2 = 0 THEN sq ELSE (sq * (base % m)) % m

RECURSIVE ExtGcd(_, _)
\* <<g, x, y>> with a*x + b*y = g = gcd(a, b)
ExtGcd(a, b) ==
    IF b = 0 THEN <<a, 1, 0>>
    ELSE LET r == ExtGcd(b, a % b)
         IN <<r[1], r[3], r[2] - (a \div b) * r[3]>>

\* mutant of ModInverse: the inversion forgotten, pow(a, 1, m)
ModInverseForgotten(a, m) == a % m

\* mutant of ModInverse: Fermat's a^(m-2), which is 0 where no inverse exists
ModInverseFermat(a, m) == ModPow(a % m, m - 2, m)

\* pow(a, -1, m): the inverse of a modulo m, or the ValueError when there is none
ModInverse(a, m) ==
    LET r == ExtGcd(a % m, m)
    IN IF r[1] # 1 THEN NotInvertible ELSE r[2] % m

-----------------------------------------------------------------------------
(* Shamir.py *)

PRIME == 2089

RECURSIVE isprimeLoop(_, _)
isprimeLoop(m, i) ==
    IF i * i > m THEN TRUE
    ELSE IF m % i = 0 \/ m % (i + 2) = 0 THEN FALSE
    ELSE isprimeLoop(m, i + 6)

isprime(m) ==
    IF m <= 1 THEN FALSE
    ELSE IF m <= 3 THEN TRUE
    ELSE IF m % 2 = 0 \/ m % 3 = 0 THEN FALSE
    ELSE isprimeLoop(m, 5)

\* mutant of PolyDegree: the threshold taken for the degree, range(degree + 1)
PolyDegreeThreshold(degree) == IF degree + 1 < 0 THEN 0 ELSE degree + 1

\* range(degree) is empty for degree <= 0
PolyDegree(degree) == IF degree < 0 THEN 0 ELSE degree

\* generate_polynomial(secret, degree) with the random draws given as coeffs
generate_polynomial(s, degree, coeffs) == <<s>> \o coeffs

RECURSIVE SumTerms(_, _, _, _)
\* sum(coef * pow(x, i, prime) for i, coef in enumerate(poly)), from term k on
SumTerms(f, x, prime, k) ==
    IF k > Len(f) THEN 0
    ELSE f[k] * ModPow(x, k - 1, prime) + SumTerms(f, x, prime, k + 1)

\* mutant of evaluate_polynomial: the powers counted from 1, enumerate(poly, 1)
evaluate_polynomial_from1(f, x, prime) == (x * SumTerms(f, x, prime, 1)) % prime

\* mutant of evaluate_polynomial: the final "% prime" left out
evaluate_polynomial_unreduced(f, x, prime) == SumTerms(f, x, prime, 1)

evaluate_polynomial(f, x, prime) == SumTerms(f, x, prime, 1) % prime

\* mutant of generate_shares: the indices of range(n), 0 .. n-1
generate_shares_from0(s, nn, tt, coeffs) ==
    LET f == generate_polynomial(s, tt - 1, coeffs)
    IN <<[i \in 1..nn |-> <<i - 1, evaluate_polynomial(f, i - 1, PRIME)>>], f>>

\* generate_shares(secret, n, t): <<shares, poly>>
generate_shares(s, nn, tt, coeffs) ==
    LET f == generate_polynomial(s, tt - 1, coeffs)
    IN <<[i \in 1..nn |-> <<i, evaluate_polynomial(f, i, PRIME)>>], f>>

RECURSIVE BasisLoop(_, _, _, _, _)
\* mutant of BasisLoop: the factor (xj - x) in place of (x - xj)
BasisLoopSignSlip(x, x_s, i, jj, li) ==
    IF jj > Len(x_s) THEN li
    ELSE IF i = jj THEN BasisLoop(x, x_s, i, jj + 1, li)
    ELSE LET inv == ModInverse(x_s[i] - x_s[jj], PRIME)
         IN IF inv = NotInvertible THEN NotInvertible
            ELSE BasisLoop(x, x_s, i, jj + 1, (li * (((x_s[jj] - x) * inv) % PRIME)) % PRIME)

\* the inner loop of lagrange_interpolation: li after j = jj..k
\* (Python integers are unbounded: the factor is reduced first to stay within
\* 32 bits, which leaves li % PRIME as it is)
BasisLoop(x, x_s, i, jj, li) ==
    IF jj > Len(x_s) THEN li
    ELSE IF i = jj THEN BasisLoop(x, x_s, i, jj + 1, li)
    ELSE LET inv == ModInverse(x_s[i] - x_s[jj], PRIME)
         IN IF inv = NotInvertible THEN NotInvertible
            ELSE BasisLoop(x, x_s, i, jj + 1, (li * (((x - x_s[jj]) * inv) % PRIME)) % PRIME)

RECURSIVE TotalLoop(_, _, _, _, _)
\* mutant of TotalLoop: "total %= PRIME" left out
TotalLoopUnreduced(x, x_s, y_s, ii, total) ==
    IF ii > Len(x_s) THEN total
    ELSE LET li == BasisLoop(x, x_s, ii, 1, 1)
         IN IF li = NotInvertible THEN NotInvertible
            ELSE TotalLoop(x, x_s, y_s, ii + 1, total + y_s[ii] * li)

\* the outer loop of lagrange_interpolation: total after i = ii..k
TotalLoop(x, x_s, y_s, ii, total) ==
    IF ii > Len(x_s) THEN total
    ELSE LET li == BasisLoop(x, x_s, ii, 1, 1)
         IN IF li = NotInvertible THEN NotInvertible
            ELSE TotalLoop(x, x_s, y_s, ii + 1, (total + y_s[ii] * li) % PRIME)

lagrange_interpolation(x, x_s, y_s) == TotalLoop(x, x_s, y_s, 1, 0)

reconstruct_secret(sel) ==
    IF Len(sel) = 0 THEN UnpackError
    ELSE lagrange_interpolation(0, [i \in 1..Len(sel) |-> sel[i][1]],
                                   [i \in 1..Len(sel) |-> sel[i][2]])

-----------------------------------------------------------------------------
(* Shamir.py: operations *)

\* the literals of main()
MainN == 4
MainT == 3

\* every list of k pairwise different positions of a list of length len
Samples(len, k) == {f \in [1..k -> 1..len] : \A a, b \in 1..k : a # b => f[a] # f[b]}

\* the list of shares at the chosen positions
Pick(all, f) == [i \in 1..Len(f) |-> all[f[i]]]

ShamirIdle ==
    /\ sh_pc = "idle" /\ secret = None /\ n = 0 /\ t = 0
    /\ poly = <<>> /\ shares = <<>> /\ selected_shares = <<>>
    /\ recovered_secret = None

\* a call generate_shares(secret, n, t); the code checks nothing about t
GenerateShares ==
    /\ sh_pc = "idle"
    /\ \E s \in SecretSamples, nn \in 1..MaxShares :
       \E tt \in 0..(nn + 1) :
       \E coeffs \in [1..PolyDegree(tt - 1) -> CoeffSamples] :
          LET r == generate_shares(s, nn, tt, coeffs)
          IN /\ secret' = s /\ n' = nn /\ t' = tt
             /\ shares' = r[1] /\ poly' = r[2]
    /\ sh_pc' = "shared"
    /\ UNCHANGED <<selected_shares, recovered_secret>>
    /\ UNCHANGED <<dhVars, exVars>>

\* a call reconstruct_secret(selection) on shares of the last generate_shares
ReconstructSecret ==
    /\ sh_pc = "shared"
    /\ \E k \in 0..Len(shares) : \E f \in Samples(Len(shares), k) :
          LET sel == Pick(shares, f)
              r == reconstruct_secret(sel)
          IN /\ selected_shares' = sel
             /\ recovered_secret' = r
             /\ sh_pc' = IF r < 0 THEN "raised" ELSE "reconstructed"
    /\ UNCHANGED <<secret, n, t, poly, shares>>
    /\ UNCHANGED <<dhVars, exVars>>

\* a call reconstruct_secret(selection) on a list that holds one share twice:
\* k different shares of the last generate_shares and, at the front or at the
\* end, a second copy of one of them, its index as it is or shifted by PRIME
ReconstructRepeated ==
    /\ sh_pc = "shared" /\ 1 <= t /\ t <= n
    /\ \E k \in 1..(MaxRepeatLen - 1) :
       \E f \in Samples(Len(shares), k) :
       \E a \in 1..k, shift \in {0, PRIME}, front \in BOOLEAN :
          LET base == Pick(shares, f)
              copy == <<base[a][1] + shift, base[a][2]>>
              sel == IF front THEN <<copy>> \o base ELSE base \o <<copy>>
              r == reconstruct_secret(sel)
          IN /\ selected_shares' = sel
             /\ recovered_secret' = r
             /\ sh_pc' = IF r < 0 THEN "raised" ELSE "reconstructed"
    /\ UNCHANGED <<secret, n, t, poly, shares>>
    /\ UNCHANGED <<dhVars, exVars>>

\* main(): the primality check, the t > n check, generate_shares, a random
\* sample of t shares and reconstruct_secret
Main ==
    /\ sh_pc = "idle"
    /\ IF ~isprime(PRIME) \/ MainT > MainN
       THEN /\ sh_pc' = "returned"
            /\ UNCHANGED <<secret, n, t, poly, shares, selected_shares, recovered_secret>>
       ELSE \E s \in SecretSamples \ {0} :
            \E coeffs \in [1..PolyDegree(MainT - 1) -> CoeffSamples] :
            \E f \in Samples(MainN, MainT) :
               LET r == generate_shares(s, MainN, MainT, coeffs)
                   sel == Pick(r[1], f)
               IN /\ secret' = s /\ n' = MainN /\ t' = MainT
                  /\ shares' = r[1] /\ poly' = r[2]
                  /\ selected_shares' = sel
                  /\ recovered_secret' = reconstruct_secret(sel)
                  /\ sh_pc' = "main_done"
    /\ UNCHANGED <<dhVars, exVars>>

-----------------------------------------------------------------------------
(* Diffie-Hellman scripts: classes *)

\* the protocol classes of the repository
Impls == {"Npart",            \* scriptNpart.py MultipartyDH (sequential)
          "NpartSequentiel",  \* scriptNpartSequentiel.py MultipartyDH (sequential)
          "NpartRound",       \* scriptNpartRound.py CircularMultipartyDH
          "Circular34",       \* script3-4part.py MultipartyDH (circular)
          "Simplified34",     \* script3-4part.py SimplifiedMultipartyDH (sequential)
          "BenchCircular",    \* scriptBench.py CircularProtocol
          "BenchSequential"}  \* scriptBench.py SequentialProtocol

IsCircular(im) == im \in {"NpartRound", "Circular34", "BenchCircular"}
\* the classes whose run starts with "if n < 2: raise ValueError"
ChecksMinimum(im) == im \in {"Npart", "Circular34"}
\* the classes whose run ends with "return final_secret if all_same else None"
VerifiesAgreement(im) == im \in {"NpartRound", "Circular34"}
\* the classes whose participants count their operations
CountsOperations(im) == im \in {"BenchCircular", "BenchSequential"}
\* the classes that keep self.final_secret
StoresFinalSecret(im) == im \in {"Npart", "Circular34"}

\* DiffieHellman(): the default parameters
DHParams == {[p |-> 2357, g |-> 2]}

\* DiffieHellman.generate_private_key: random.randint(2, p - 2)
PrivateKeys(params) == {k \in KeySamples : 2 <= k /\ k <= params.p - 2}

\* mutant of compute_public_key: base and exponent swapped
compute_public_key_swapped(params, private_key) ==
    ModPow(private_key, params.g, params.p)

\* DiffieHellman.compute_public_key
compute_public_key(params, private_key) == ModPow(params.g, private_key, params.p)

\* DHParticipant.__init__ with the drawn private key
DHParticipant(params, k) ==
    [private_key |-> k, public_key |-> compute_public_key(params, k),
     operations_count |-> 0]

\* mutant of apply_key: the public key used as the exponent
apply_key_public(params, participant, input_value) ==
    ModPow(input_value, participant.public_key, params.p)

\* the value DHParticipant.apply_key / apply_private_key /
\* compute_intermediate_value returns
apply_key(params, participant, input_value) ==
    ModPow(input_value, participant.private_key, params.p)

\* mutant of Counted: the operation counted twice
CountedTwice(im, participant) ==
    IF CountsOperations(im)
    THEN [participant EXCEPT !.operations_count = @ + 2]
    ELSE participant

\* the participant after apply_key: scriptBench counts the operation
Counted(im, participant) ==
    IF CountsOperations(im)
    THEN [participant EXCEPT !.operations_count = @ + 1]
    ELSE participant

\* mutant of reset_operations: the counter is left as it is
reset_operations_skipped(participant) == participant

\* DHParticipant.reset_operations
reset_operations(participant) == [participant EXCEPT !.operations_count = 0]

\* mutant of PrevIndex: the successor, (i + 1) % n
PrevIndexNext(i, len) == (i % len) + 1

\* mutant of PrevIndex: the participant's own position, i % n
PrevIndexOwn(i, len) == ((i - 1) % len) + 1

\* prev_index = (i - 1) % n, for the 1-based position i
PrevIndex(i, len) == ((i - 2) % len) + 1

\* mutant of InputValue: the round updates the vector in place, an output
\* already captured in this round is read instead of the previous round's
InputValueInPlace(values, fresh, i, len) ==
    IF PrevIndex(i, len) \in DOMAIN fresh
    THEN fresh[PrevIndex(i, len)]
    ELSE values[PrevIndex(i, len)]

\* input_value = current_values[prev_index]; fresh holds the outputs
\* captured so far in this round, which the code does not read
InputValue(values, fresh, i, len) == values[PrevIndex(i, len)]

RECURSIVE SumOperations(_, _)
\* sum(p.operations_count for p in self.participants), from position k on
SumOperations(ps, k) ==
    IF k > Len(ps) THEN 0 ELSE ps[k].operations_count + SumOperations(ps, k + 1)

\* all(value == final_secret for value in current_values)
AllSame(values, v) == \A i \in 1..Len(values) : values[i] = v

NoRun == pc \in {"idle", "done", "raised"}

DHIdle ==
    /\ participants = <<>> /\ pc = "idle" /\ round_num = 0 /\ idx = 0
    /\ current_values = <<>> /\ new_values = <<>> /\ current_value = None
    /\ result = None /\ total_operations = 0 /\ final_secret = None
    /\ current = None /\ previous_result = None /\ shared_secret = None

-----------------------------------------------------------------------------
(* Diffie-Hellman scripts: operations *)

\* add_participant(name): one more participant with a fresh private key
AddParticipant ==
    /\ ~CountsOperations(impl) /\ NoRun
    /\ Len(participants) < MaxParticipants
    /\ \E k \in PrivateKeys(dh) :
          participants' = Append(participants, DHParticipant(dh, k))
    /\ pc' = "idle" /\ result' = None
    /\ UNCHANGED <<impl, dh, round_num, idx, current_values, new_values,
                   current_value, total_operations, final_secret>>
    /\ current' = None /\ previous_result' = None /\ shared_secret' = None
    /\ UNCHANGED <<shamirVars, exVars>>

\* scriptBench add_participants(count): the list is replaced by count new ones
AddParticipants ==
    /\ CountsOperations(impl) /\ NoRun
    /\ \E count \in 0..MaxParticipants :
       \E keys \in [1..count -> PrivateKeys(dh)] :
          participants' = [i \in 1..count |-> DHParticipant(dh, keys[i])]
    /\ pc' = "idle" /\ result' = None
    /\ UNCHANGED <<impl, dh, round_num, idx, current_values, new_values,
                   current_value, total_operations, final_secret>>
    /\ current' = None /\ previous_result' = None /\ shared_secret' = None
    /\ UNCHANGED <<shamirVars, exVars>>

\* mutant of ResetForRun: the loop over reset_operations left out
ResetForRunTotalOnly ==
    IF CountsOperations(impl)
    THEN /\ total_operations' = 0
         /\ participants' = participants
    ELSE UNCHANGED <<total_operations, participants>>

\* what the head of run_protocol does to the participants and the total
ResetForRun ==
    IF CountsOperations(impl)
    THEN /\ total_operations' = 0
         /\ participants' = [i \in 1..Len(participants) |->
                                reset_operations(participants[i])]
    ELSE UNCHANGED <<total_operations, participants>>

\* circular run_protocol / circular_protocol up to the end of round 0
StartCircular ==
    /\ IsCircular(impl) /\ NoRun
    /\ ResetForRun
    /\ round_num' = 0 /\ new_values' = <<>> /\ current_value' = None
    /\ IF ChecksMinimum(impl) /\ Len(participants) < 2
       THEN /\ pc' = "raised" /\ result' = TooFewParticipants
            /\ current_values' = <<>> /\ idx' = 0
       ELSE /\ current_values' = [i \in 1..Len(participants) |->
                                     participants[i].public_key]
            /\ result' = None
            /\ idx' = 1
            /\ pc' = IF 1 < Len(participants) THEN "round" ELSE "verify"
    /\ UNCHANGED <<impl, dh, final_secret>>
    /\ previous_result' = result /\ current' = current
    /\ shared_secret' = shared_secret
    /\ UNCHANGED <<shamirVars, exVars>>

\* one pass of the inner loop: participant idx applies its key to the value
\* its predecessor held at the end of the previous round
ApplyStep ==
    /\ pc = "round"
    /\ LET len == Len(participants)
           participant == participants[idx]
           input_value == InputValue(current_values, new_values, idx, len)
           output_value == apply_key(dh, participant, input_value)
       IN /\ new_values' = Append(new_values, output_value)
          /\ participants' = [participants EXCEPT ![idx] = Counted(impl, participant)]
          /\ round_num' = IF idx = 1 THEN round_num + 1 ELSE round_num
          /\ IF idx < len
             THEN idx' = idx + 1 /\ pc' = "round"
             ELSE idx' = 1 /\ pc' = "round_end"
    /\ UNCHANGED <<impl, dh, current_values, current_value, result,
                   total_operations, final_secret>>
    /\ UNCHANGED <<current, previous_result, shared_secret>>
    /\ UNCHANGED <<shamirVars, exVars>>

\* mutant of EndRound: one round too many, range(1, n + 1)
EndRoundOneMore ==
    /\ pc = "round_end"
    /\ current_values' = new_values
    /\ IF round_num < Len(participants)
       THEN pc' = "round" /\ new_values' = <<>>
       ELSE pc' = "verify" /\ new_values' = new_values
    /\ UNCHANGED <<impl, dh, participants, round_num, idx, current_value, result,
                   total_operations, final_secret>>
    /\ UNCHANGED <<current, previous_result, shared_secret>>
    /\ UNCHANGED <<shamirVars, exVars>>

\* mutant of EndRound: one round too few, range(1, n - 1)
EndRoundOneLess ==
    /\ pc = "round_end"
    /\ current_values' = new_values
    /\ IF round_num + 2 < Len(participants)
       THEN pc' = "round" /\ new_values' = <<>>
       ELSE pc' = "verify" /\ new_values' = new_values
    /\ UNCHANGED <<impl, dh, participants, round_num, idx, current_value, result,
                   total_operations, final_secret>>
    /\ UNCHANGED <<current, previous_result, shared_secret>>
    /\ UNCHANGED <<shamirVars, exVars>>

\* current_values = new_values, and the next round or the end of the loop
EndRound ==
    /\ pc = "round_end"
    /\ current_values' = new_values
    /\ IF round_num + 1 < Len(participants)
       THEN pc' = "round" /\ new_values' = <<>>
       ELSE pc' = "verify" /\ new_values' = new_values
    /\ UNCHANGED <<impl, dh, participants, round_num, idx, current_value, result,
                   total_operations, final_secret>>
    /\ UNCHANGED <<current, previous_result, shared_secret>>
    /\ UNCHANGED <<shamirVars, exVars>>

\* the final check and the return of the circular run
FinishCircular ==
    /\ pc = "verify"
    /\ total_operations' = IF CountsOperations(impl)
                           THEN SumOperations(participants, 1)
                           ELSE total_operations
    /\ IF Len(current_values) = 0
       THEN /\ pc' = "raised" /\ result' = IndexError
            /\ UNCHANGED final_secret
       ELSE LET fs == current_values[1]
                all_same == AllSame(current_values, fs)
            IN /\ final_secret' = IF StoresFinalSecret(impl) THEN fs ELSE final_secret
               /\ result' = IF VerifiesAgreement(impl) /\ ~all_same THEN None ELSE fs
               /\ pc' = "done"
    /\ UNCHANGED <<impl, dh, participants, round_num, idx, current_values,
                   new_values, current_value>>
    /\ UNCHANGED <<current, previous_result, shared_secret>>
    /\ UNCHANGED <<shamirVars, exVars>>

\* mutant of StartSequential: the running value is not set back to g
StartSequentialResumed ==
    /\ ~IsCircular(impl) /\ NoRun
    /\ ResetForRun
    /\ round_num' = 0 /\ new_values' = <<>> /\ current_values' = <<>>
    /\ IF ChecksMinimum(impl) /\ Len(participants) < 2
       THEN /\ pc' = "raised" /\ result' = TooFewParticipants
            /\ current_value' = None /\ idx' = 0
       ELSE /\ current_value' = IF current_value = None THEN dh.g ELSE current_value
            /\ result' = None
            /\ idx' = 1
            /\ pc' = IF 0 < Len(participants) THEN "fold" ELSE "return"
    /\ UNCHANGED <<impl, dh, final_secret>>
    /\ previous_result' = result /\ current' = current
    /\ shared_secret' = shared_secret
    /\ UNCHANGED <<shamirVars, exVars>>

\* sequential run_protocol / sequential_protocol up to current_value = g
StartSequential ==
    /\ ~IsCircular(impl) /\ NoRun
    /\ ResetForRun
    /\ round_num' = 0 /\ new_values' = <<>> /\ current_values' = <<>>
    /\ IF ChecksMinimum(impl) /\ Len(participants) < 2
       THEN /\ pc' = "raised" /\ result' = TooFewParticipants
            /\ current_value' = None /\ idx' = 0
       ELSE /\ current_value' = dh.g
            /\ result' = None
            /\ idx' = 1
            /\ pc' = IF 0 < Len(participants) THEN "fold" ELSE "return"
    /\ UNCHANGED <<impl, dh, final_secret>>
    /\ previous_result' = result /\ current' = current
    /\ shared_secret' = shared_secret
    /\ UNCHANGED <<shamirVars, exVars>>

\* one pass of the loop: participant idx applies its key to the running value
FoldStep ==
    /\ pc = "fold"
    /\ LET participant == participants[idx]
       IN /\ current_value' = apply_key(dh, participant, current_value)
          /\ participants' = [participants EXCEPT ![idx] = Counted(impl, participant)]
    /\ idx' = idx + 1
    /\ pc' = IF idx < Len(participants) THEN "fold" ELSE "return"
    /\ UNCHANGED <<impl, dh, round_num, current_values, new_values, result,
                   total_operations, final_secret>>
    /\ UNCHANGED <<current, previous_result, shared_secret>>
    /\ UNCHANGED <<shamirVars, exVars>>

\* the return of the sequential run
FinishSequential ==
    /\ pc = "return"
    /\ total_operations' = IF CountsOperations(impl)
                           THEN SumOperations(participants, 1)
                           ELSE total_operations
    /\ final_secret' = IF StoresFinalSecret(impl) THEN current_value ELSE final_secret
    /\ result' = current_value
    /\ pc' = "done"
    /\ UNCHANGED <<impl, dh, participants, round_num, idx, current_values,
                   new_values, current_value>>
    /\ UNCHANGED <<current, previous_result, shared_secret>>
    /\ UNCHANGED <<shamirVars, exVars>>

RECURSIVE SequentialFold(_, _, _, _)
\* the loop of the sequential run from participant k on
SequentialFold(params, ps, k, value) ==
    IF k > Len(ps) THEN value
    ELSE SequentialFold(params, ps, k + 1, apply_key(params, ps[k], value))

\* the value a sequential run returns for the list ps
sequential_value(params, ps) == SequentialFold(params, ps, 1, params.g)

\* get_shared_secret(): the stored secret, or that of a silent run_protocol
\* when none is stored
GetSharedSecret ==
    /\ impl = "Npart" /\ NoRun
    /\ IF final_secret # None
       THEN /\ shared_secret' = final_secret
            /\ UNCHANGED <<pc, round_num, idx, current_values, new_values,
                           current_value, result, final_secret, previous_result>>
       ELSE /\ round_num' = 0 /\ new_values' = <<>> /\ current_values' = <<>>
            /\ previous_result' = result
            /\ IF Len(participants) < 2
               THEN /\ pc' = "raised" /\ result' = TooFewParticipants
                    /\ shared_secret' = TooFewParticipants
                    /\ current_value' = None /\ idx' = 0
                    /\ final_secret' = final_secret
               ELSE LET value == SequentialFold(dh, participants, 1, dh.g)
                    IN /\ current_value' = value
                       /\ idx' = Len(participants) + 1
                       /\ final_secret' = value
                       /\ result' = value
                       /\ shared_secret' = value
                       /\ pc' = "done"
    /\ UNCHANGED <<impl, dh, participants, total_operations, current>>
    /\ UNCHANGED <<shamirVars, exVars>>

\* demo_step_by_step: current = dh.g
ManualStart ==
    /\ impl = "Npart" /\ NoRun
    /\ current' = dh.g
    /\ idx' = 1
    /\ pc' = "manual"
    /\ UNCHANGED <<impl, dh, participants, round_num, current_values, new_values,
                   current_value, result, total_operations, final_secret,
                   previous_result, shared_secret>>
    /\ UNCHANGED <<shamirVars, exVars>>

\* demo_step_by_step: current = <participant>.apply_private_key(current)
ManualStep ==
    /\ pc = "manual" /\ idx <= Len(participants)
    /\ current' = apply_key(dh, participants[idx], current)
    /\ idx' = idx + 1
    /\ UNCHANGED <<impl, dh, participants, pc, round_num, current_values, new_values,
                   current_value, result, total_operations, final_secret,
                   previous_result, shared_secret>>
    /\ UNCHANGED <<shamirVars, exVars>>

\* demo_step_by_step: multiparty.final_secret = None, before run_protocol
ManualFinish ==
    /\ pc = "manual" /\ idx > Len(participants)
    /\ final_secret' = None
    /\ pc' = "idle"
    /\ UNCHANGED <<impl, dh, participants, round_num, idx, current_values,
                   new_values, current_value, result, total_operations, current,
                   previous_result, shared_secret>>
    /\ UNCHANGED <<shamirVars, exVars>>

-----------------------------------------------------------------------------
(* script1simple.py: the two-party exchange *)

\* the moduli tried besides the two of the script
SmallModuli == 0..6
\* test_different_parameters: large_p, large_g
LargeP == 32771
LargeG == 3

\* the arguments DiffieHellman(p, g) is constructed with
ExchangeArgs ==
    {<<None, None>>, <<LargeP, LargeG>>} \cup {<<q, 2>> : q \in SmallModuli}

\* DiffieHellman.__init__: the defaults unless both arguments are given
NewDiffieHellman(p, g) ==
    IF p = None \/ g = None THEN [p |-> 2357, g |-> 2] ELSE [p |-> p, g |-> g]

\* random.randint(a, b): the outcomes, a sample of [a, b]; the error when
\* the range is empty
randint(a, b) ==
    IF b < a THEN {EmptyRange}
    ELSE {k \in {a, a + 1, a + 5, 1000, b - 1, b} : a <= k /\ k <= b}

\* DiffieHellman.generate_private_key
generate_private_key(params) == randint(2, params.p - 2)

\* mutant of compute_shared_secret: base and exponent swapped
compute_shared_secret_swapped(params, private_key, other_public_key) ==
    ModPow(private_key, other_public_key, params.p)

\* DiffieHellman.compute_shared_secret
compute_shared_secret(params, private_key, other_public_key) ==
    ModPow(other_public_key, private_key, params.p)

NoParticipant == [private_key |-> None, public_key |-> None, shared_secret |-> None]

\* script1simple.py DHParticipant.__init__ with the drawn private key
ExchangeParticipant(params, k) ==
    [private_key |-> k, public_key |-> compute_public_key(params, k),
     shared_secret |-> None]

ExIdle ==
    /\ ex_pc = "none" /\ ex_dh = [p |-> None, g |-> None]
    /\ alice = NoParticipant /\ bob = NoParticipant /\ ex_error = None

\* dh = DiffieHellman(...)
ConstructDH ==
    /\ ex_pc = "none"
    /\ \E args \in ExchangeArgs : ex_dh' = NewDiffieHellman(args[1], args[2])
    /\ ex_pc' = "constructed"
    /\ UNCHANGED <<alice, bob, ex_error>>
    /\ UNCHANGED <<shamirVars, dhVars>>

\* alice = DHParticipant("Alice", dh)
CreateAlice ==
    /\ ex_pc = "constructed"
    /\ \E k \in generate_private_key(ex_dh) :
          IF k = EmptyRange
          THEN /\ ex_pc' = "raised" /\ ex_error' = EmptyRange /\ alice' = alice
          ELSE /\ alice' = ExchangeParticipant(ex_dh, k)
               /\ ex_pc' = "alice" /\ ex_error' = ex_error
    /\ UNCHANGED <<ex_dh, bob>>
    /\ UNCHANGED <<shamirVars, dhVars>>

\* bob = DHParticipant("Bob", dh)
CreateBob ==
    /\ ex_pc = "alice"
    /\ \E k \in generate_private_key(ex_dh) :
          IF k = EmptyRange
          THEN /\ ex_pc' = "raised" /\ ex_error' = EmptyRange /\ bob' = bob
          ELSE /\ bob' = ExchangeParticipant(ex_dh, k)
               /\ ex_pc' = "ready" /\ ex_error' = ex_error
    /\ UNCHANGED <<ex_dh, alice>>
    /\ UNCHANGED <<shamirVars, dhVars>>

\* alice_secret = alice.compute_shared_secret(bob.public_key)
AliceComputes ==
    /\ ex_pc = "ready"
    /\ alice' = [alice EXCEPT !.shared_secret =
                    compute_shared_secret(ex_dh, alice.private_key, bob.public_key)]
    /\ ex_pc' = "alice_done"
    /\ UNCHANGED <<ex_dh, bob, ex_error>>
    /\ UNCHANGED <<shamirVars, dhVars>>

\* bob_secret = bob.compute_shared_secret(alice.public_key)
BobComputes ==
    /\ ex_pc = "alice_done"
    /\ bob' = [bob EXCEPT !.shared_secret =
                  compute_shared_secret(ex_dh, bob.private_key, alice.public_key)]
    /\ ex_pc' = "done"
    /\ UNCHANGED <<ex_dh, alice, ex_error>>
    /\ UNCHANGED <<shamirVars, dhVars>>

-----------------------------------------------------------------------------
(* Specifications *)

InitShamir ==
    /\ ShamirIdle
    /\ impl = "Npart" /\ dh \in DHParams /\ DHIdle
    /\ ExIdle

NextShamir ==
    \/ GenerateShares
    \/ ReconstructSecret
    \/ ReconstructRepeated
    \/ Main

SpecShamir == InitShamir /\ [][NextShamir]_vars

InitDH ==
    /\ ShamirIdle
    /\ impl \in Impls /\ dh \in DHParams /\ DHIdle
    /\ ExIdle

NextDH ==
    \/ AddParticipant
    \/ AddParticipants
    \/ StartCircular
    \/ ApplyStep
    \/ EndRound
    \/ FinishCircular
    \/ StartSequential
    \/ FoldStep
    \/ FinishSequential
    \/ ManualStart
    \/ ManualStep
    \/ ManualFinish
    \/ GetSharedSecret

SpecDH == InitDH /\ [][NextDH]_vars

\* a step inside a run: run_protocol is one sequential call, a step that can
\* be taken is taken
RunStep == ApplyStep \/ EndRound \/ FinishCircular \/ FoldStep \/ FinishSequential

SpecDHLive == InitDH /\ [][NextDH]_vars /\ WF_vars(RunStep)

\* either program runs, the other one untouched: the sharing and the
\* protocols have no state in common
NextCore ==
    \/ (DHIdle /\ impl = "Npart" /\ NextShamir)
    \/ (sh_pc = "idle" /\ NextDH)

SpecCore == InitDH /\ [][NextCore]_vars

\* final vectors handed to the verification at the end of a circular run
FinalValueSamples == {1, 2, 1234}

\* a circular run at its final verification, with any final vector
InitVerify ==
    /\ ShamirIdle /\ ExIdle
    /\ impl \in {im \in Impls : IsCircular(im)} /\ dh \in DHParams
    /\ \E len \in 0..MaxParticipants :
          /\ participants \in [1..len -> {DHParticipant(dh, k) : k \in PrivateKeys(dh)}]
          /\ current_values \in [1..len -> FinalValueSamples]
          /\ round_num = IF len = 0 THEN 0 ELSE len - 1
    /\ new_values = IF Len(participants) < 2 THEN <<>> ELSE current_values
    /\ pc = "verify" /\ idx = 1 /\ current_value = None
    /\ result = None /\ total_operations = 0 /\ final_secret = None
    /\ current = None /\ previous_result = None /\ shared_secret = None

NextVerify ==
    \/ FinishCircular

SpecVerify == InitVerify /\ [][NextVerify]_vars

InitExchange ==
    /\ ShamirIdle
    /\ impl = "Npart" /\ dh \in DHParams /\ DHIdle
    /\ ExIdle

NextExchange ==
    \/ ConstructDH
    \/ CreateAlice
    \/ CreateBob
    \/ AliceComputes
    \/ BobComputes

SpecExchange == InitExchange /\ [][NextExchange]_vars

-----------------------------------------------------------------------------
(* The protocols as functions of the participant list *)


RECURSIVE CircularRounds(_, _, _, _)
\* rounds r..n-1 of the circular run
CircularRounds(params, ps, values, r) ==
    IF r >= Len(ps) THEN values
    ELSE CircularRounds(params, ps,
             [i \in 1..Len(ps) |->
                 apply_key(params, ps[i], values[PrevIndex(i, Len(ps))])],
             r + 1)

\* the final value vector of a circular run for the list ps
circular_values(params, ps) ==
    CircularRounds(params, ps, [i \in 1..Len(ps) |-> ps[i].public_key], 1)

-----------------------------------------------------------------------------
(* Reference values *)

RECURSIVE ExponentProduct(_, _)
\* the integer product of the private keys from position k on
ExponentProduct(ps, k) ==
    IF k > Len(ps) THEN 1 ELSE ps[k].private_key * ExponentProduct(ps, k + 1)

RECURSIVE RepeatedProduct(_, _, _)
\* g * g * ... * g (e factors) modulo m, by e - 1 modular multiplications
RepeatedProduct(g, e, m) ==
    IF e = 0 THEN 1 % m
    ELSE IF e = 1 THEN g % m
    ELSE (RepeatedProduct(g, e \div 2, m) * RepeatedProduct(g, e - (e \div 2), m)) % m

\* g^(a1 * a2 * ... * an) mod p for the registered participants
ReferenceSecret == RepeatedProduct(dh.g, ExponentProduct(participants, 1), dh.p)

\* the participants in the order perm
Reordered(ps, perm) == [i \in 1..Len(ps) |-> ps[perm[i]]]

PrivateKeysOf(ps) == [i \in 1..Len(ps) |-> ps[i].private_key]

-----------------------------------------------------------------------------
(* Properties *)

\* reconstruct_secret has been called
Reconstructed == sh_pc \in {"reconstructed", "raised", "main_done"}
\* generate_shares has been called
Shared == sh_pc \in {"shared", "reconstructed", "raised", "main_done"}
\* the sharing parameters are valid
ValidSharing == secret \in 0..(PRIME - 1) /\ 1 <= t /\ t <= n /\ n < PRIME
\* the x of the selected shares
SelectedIndices == [i \in 1..Len(selected_shares) |-> selected_shares[i][1]]

\* two shares of the selection have indices congruent modulo PRIME
CongruentPair ==
    \E a, b \in 1..Len(selected_shares) :
        a # b /\ (selected_shares[a][1] - selected_shares[b][1]) % PRIME = 0
\* the selection is a set of shares of generate_shares, listed in some order
SelectionIsSubset ==
    /\ \A a \in 1..Len(selected_shares) :
           \E i \in 1..Len(shares) : selected_shares[a] = shares[i]
    /\ ~CongruentPair

\* C1: for a valid (secret, n, t), reconstruct_secret on any t of the shares
\* of generate_shares(secret, n, t), in any order, returns the secret.
C1_ExactThresholdReconstructs ==
    (Reconstructed /\ ValidSharing /\ SelectionIsSubset
        /\ Len(selected_shares) = t)
        => recovered_secret = secret

\* shares 4, 1, 3 of f(x) = 1234 + 166x + 2088x^2 (n = 4, t = 3) give 1234
C1_Witness ==
    /\ sh_pc = "reconstructed" /\ n = 4 /\ t = 3
    /\ poly = <<1234, 166, 2088>>
    /\ selected_shares = <<<<4, 1882>>, <<1, 1399>>, <<3, 1723>>>>
    /\ recovered_secret = 1234

\* C2: for a valid (secret, n, t), reconstruct_secret on any k of the shares
\* with t < k <= n returns the secret too.
C2_OverThresholdReconstructs ==
    (Reconstructed /\ ValidSharing /\ SelectionIsSubset
        /\ t < Len(selected_shares) /\ Len(selected_shares) <= n)
        => recovered_secret = secret

\* all 4 shares of a degree-1 polynomial, out of order, give the secret
C2_Witness ==
    /\ sh_pc = "reconstructed" /\ n = 4 /\ t = 2
    /\ poly = <<1234, 2088>>
    /\ SelectedIndices = <<3, 1, 4, 2>>
    /\ recovered_secret = 1234

\* C3: a sequential run on n >= 2 participants returns
\* g^(a1 * a2 * ... * an) mod p, the reference being g multiplied by itself.
C3_SequentialSecret ==
    (~IsCircular(impl) /\ pc = "done" /\ Len(participants) >= 2)
        => result = ReferenceSecret

\* p = 2357, g = 2, exponents [5, 7, 11]: 2^385 mod 2357 = 420
C3_Witness ==
    /\ impl = "NpartSequentiel" /\ pc = "done"
    /\ dh = [p |-> 2357, g |-> 2]
    /\ PrivateKeysOf(participants) = <<5, 7, 11>>
    /\ result = 420

\* C4: after round n-1 of a circular run on n >= 2 participants every entry
\* of the value vector is g^(product of the private keys) mod p, and the run
\* returns that value: it never returns None.
C4_CircularAgreement ==
    (IsCircular(impl) /\ pc \in {"verify", "done"} /\ Len(participants) >= 2)
        => /\ Len(current_values) = Len(participants)
           /\ \A i \in 1..Len(current_values) : current_values[i] = ReferenceSecret
           /\ pc = "done" => (result # None /\ result = ReferenceSecret)

\* three different keys, verified run
C4_Witness ==
    /\ impl = "NpartRound" /\ pc = "done"
    /\ PrivateKeysOf(participants) = <<5, 7, 11>>
    /\ round_num = 2
    /\ current_values = <<420, 420, 420>>
    /\ result = 420

\* C5: the value of a circular run equals the value of a sequential run on
\* the same private keys, in whatever order either protocol lists them.
C5_CircularEqualsSequential ==
    (pc = "done" /\ Len(participants) >= 2)
        => \A perm \in Permutations(1..Len(participants)) :
              LET qs == Reordered(participants, perm)
              IN IF IsCircular(impl)
                 THEN result = sequential_value(dh, qs)
                 ELSE /\ AllSame(circular_values(dh, qs), result)
                      /\ Len(circular_values(dh, qs)) = Len(participants)

\* a circular run on [5, 7, 11] against the sequential order [11, 5, 7]
C5_Witness ==
    /\ impl = "BenchCircular" /\ pc = "done"
    /\ PrivateKeysOf(participants) = <<5, 7, 11>>
    /\ result = sequential_value(dh, Reordered(participants, <<3, 1, 2>>))
    /\ result = 420

\* C6: after SequentialProtocol.run_protocol on n participants,
\* total_operations = n and every participant's operations_count is 1.
C6_SequentialOperations ==
    (impl = "BenchSequential" /\ pc = "done")
        => /\ total_operations = Len(participants)
           /\ \A i \in 1..Len(participants) : participants[i].operations_count = 1

C6_Witness ==
    /\ impl = "BenchSequential" /\ pc = "done"
    /\ Len(participants) = 3 /\ total_operations = 3

\* C7: after CircularProtocol.run_protocol on n participants,
\* total_operations = n * (n - 1) and every participant's operations_count
\* is n - 1.
C7_CircularOperations ==
    (impl = "BenchCircular" /\ pc = "done")
        => /\ total_operations = Len(participants) * (Len(participants) - 1)
           /\ \A i \in 1..Len(participants) :
                 participants[i].operations_count = Len(participants) - 1

C7_Witness ==
    /\ impl = "BenchCircular" /\ pc = "done"
    /\ Len(participants) = 3 /\ total_operations = 6

\* C8: evaluate_polynomial(poly, 0) is poly[0] for every polynomial
\* generate_polynomial returned.
C8_EvaluateAtZero ==
    Shared => evaluate_polynomial(poly, 0, PRIME) = poly[1]

C8_Witness ==
    /\ sh_pc = "shared" /\ poly = <<1234, 166, 2088>>
    /\ evaluate_polynomial(poly, 0, PRIME) = 1234

\* C9: splitting with a threshold outside [1, n] fails and yields no
\* polynomial and no shares.
C9_InvalidThresholdRejected ==
    (Shared /\ (t < 1 \/ t > n))
        => (sh_pc = "raised" /\ poly = <<>> /\ shares = <<>>)

\* C10: a run on fewer than 2 participants fails with the
\* too-few-participants error and returns no secret.
C10_TooFewParticipantsRejected ==
    (pc \in {"done", "raised"} /\ Len(participants) < 2)
        => (pc = "raised" /\ result = TooFewParticipants)

\* C11: reconstruct_secret on a list in which two shares have indices
\* congruent modulo PRIME raises the error of the modular inverse; it returns
\* no value.
C11_CongruentIndicesRaise ==
    (Reconstructed /\ CongruentPair)
        => (sh_pc = "raised" /\ recovered_secret = NotInvertible)

\* shares 2, 1 and a second share with index 2 + PRIME
C11_Witness ==
    /\ sh_pc = "raised" /\ recovered_secret = NotInvertible
    /\ SelectedIndices = <<2, 1, 2 + PRIME>>

\* C12: reconstruct_secret on k shares of one generate_shares call, with
\* 0 <= k < t and different indices, raises nothing and returns a value in
\* [0, PRIME).
C12_BelowThresholdReturns ==
    (Reconstructed /\ SelectionIsSubset /\ Len(selected_shares) < t)
        => (sh_pc # "raised" /\ recovered_secret \in 0..(PRIME - 1))

RECURSIVE Horner(_, _, _, _)
\* f[k] + x * (f[k+1] + x * (...)) modulo m: the value of f at x, by Horner's rule
Horner(f, x, m, k) ==
    IF k > Len(f) THEN 0 ELSE (f[k] + x * Horner(f, x, m, k + 1)) % m

\* C13: generate_shares(secret, n, t) returns n shares, the i-th with index i
\* (so the indices are 1..n in order, different and never 0) and with the
\* value of the returned polynomial at i.
C13_ShareIndices ==
    Shared => /\ Len(shares) = n
              /\ \A i \in 1..n :
                    /\ shares[i] = <<i, evaluate_polynomial(poly, i, PRIME)>>
                    /\ shares[i][2] = Horner(poly, i, PRIME, 1)

\* the four shares of f(x) = 1234 + 166x + 2088x^2
C13_Witness ==
    /\ sh_pc = "shared" /\ n = 4 /\ poly = <<1234, 166, 2088>>
    /\ shares = <<<<1, 1399>>, <<2, 1562>>, <<3, 1723>>, <<4, 1882>>>>

\* C14: with t = 1 the polynomial is the constant secret, every share value
\* is the secret and reconstruct_secret on any one share returns the secret.
C14_ThresholdOne ==
    (Shared /\ t = 1 /\ secret \in 0..(PRIME - 1))
        => /\ poly = <<secret>>
           /\ \A i \in 1..Len(shares) : shares[i][2] = secret
           /\ (Reconstructed /\ SelectionIsSubset /\ Len(selected_shares) = 1)
                 => recovered_secret = secret

C14_Witness ==
    /\ sh_pc = "reconstructed" /\ t = 1 /\ n = 4 /\ secret = 1234
    /\ selected_shares = <<<<3, 1234>>>>
    /\ recovered_secret = 1234

-----------------------------------------------------------------------------
(* Polynomials over the field, for the hiding property *)

\* candidate secrets, samples of [0, PRIME)
CandidateSecrets == SecretSamples \cup {1, 777}

\* the coefficients of f(x) * (x - a) modulo PRIME
PolyTimesLinear(f, a) ==
    [k \in 1..(Len(f) + 1) |->
        ((IF k > 1 THEN f[k - 1] ELSE 0)
            - (a % PRIME) * (IF k <= Len(f) THEN f[k] ELSE 0)) % PRIME]

RECURSIVE BasisNumerator(_, _, _, _)
\* acc times the product of (x - xs[j]) over j >= jj, j # i
BasisNumerator(xs, i, jj, acc) ==
    IF jj > Len(xs) THEN acc
    ELSE IF jj = i THEN BasisNumerator(xs, i, jj + 1, acc)
    ELSE BasisNumerator(xs, i, jj + 1, PolyTimesLinear(acc, xs[jj]))

RECURSIVE BasisDenominator(_, _, _, _)
\* acc times the product of (xs[i] - xs[j]) over j >= jj, j # i, modulo PRIME
BasisDenominator(xs, i, jj, acc) ==
    IF jj > Len(xs) THEN acc
    ELSE IF jj = i THEN BasisDenominator(xs, i, jj + 1, acc)
    ELSE BasisDenominator(xs, i, jj + 1, (acc * ((xs[i] - xs[jj]) % PRIME)) % PRIME)

RECURSIVE InterpolationSum(_, _, _, _)
\* acc plus ys[i] * (i-th Lagrange basis polynomial) over i >= ii
InterpolationSum(xs, ys, ii, acc) ==
    IF ii > Len(xs) THEN acc
    ELSE LET num == BasisNumerator(xs, ii, 1, <<1>>)
             den == BasisDenominator(xs, ii, 1, 1)
             c == ((ys[ii] % PRIME) * ModPow(den, PRIME - 2, PRIME)) % PRIME
         IN InterpolationSum(xs, ys, ii + 1,
                [k \in 1..Len(xs) |-> (acc[k] + c * num[k]) % PRIME])

\* the coefficients of the polynomial of degree < Len(xs) through the points
Interpolate(xs, ys) == InterpolationSum(xs, ys, 1, [k \in 1..Len(xs) |-> 0])

\* the polynomial with constant term s2 through the selected shares
HidingPolynomial(s2) ==
    Interpolate(<<0>> \o SelectedIndices,
                <<s2>> \o [i \in 1..Len(selected_shares) |-> selected_shares[i][2]])

\* the indices of the selection increase
SelectionSorted ==
    \A a, b \in 1..Len(selected_shares) :
        a < b => selected_shares[a][1] < selected_shares[b][1]

\* generate_shares(s2, n, t) with the random coefficients cs gives the
\* selected shares
ProducesSelection(s2, cs) ==
    LET r == generate_shares(s2, n, t, cs)
    IN \A a \in 1..Len(selected_shares) :
          selected_shares[a] = r[1][selected_shares[a][1]]

\* C15: with t = n >= 2, for any n-1 of the shares and any candidate secret
\* s2 there are random coefficients in [0, PRIME) with which
\* generate_shares(s2, n, t) produces exactly those n-1 shares.
C15_SharesHideSecret ==
    (Reconstructed /\ ValidSharing /\ t = n /\ n >= 2
        /\ SelectionIsSubset /\ SelectionSorted /\ Len(selected_shares) = n - 1)
        => \A s2 \in CandidateSecrets :
              LET f == HidingPolynomial(s2)
                  cs == Tail(f)
              IN /\ Len(f) = t /\ f[1] = s2
                 /\ \A k \in 1..Len(cs) : cs[k] \in 0..(PRIME - 1)
                 /\ ProducesSelection(s2, cs)

\* shares 1 and 3 of a sharing of 1234 with t = n = 3 are also shares of a
\* sharing of 0, with another polynomial
C15_Witness ==
    /\ sh_pc = "reconstructed" /\ n = 3 /\ t = 3 /\ secret = 1234
    /\ poly = <<1234, 166, 2088>>
    /\ SelectedIndices = <<1, 3>>
    /\ HidingPolynomial(0)[1] = 0
    /\ ProducesSelection(0, Tail(HidingPolynomial(0)))
    /\ HidingPolynomial(1234) = poly

-----------------------------------------------------------------------------
(* Properties of the two-party exchange *)

\* the parameters of demonstrate_dh_exchange and test_different_parameters
ScriptParams == {[p |-> 2357, g |-> 2], [p |-> LargeP, g |-> LargeG]}

\* C16: with the default or the extended parameters and private keys a, b
\* in [2, p-2], compute_shared_secret(a, pub(b)) = compute_shared_secret(b, pub(a)).
C16_ExchangeAgrees ==
    (ex_pc = "done" /\ ex_dh \in ScriptParams
        /\ alice.private_key \in 2..(ex_dh.p - 2) /\ bob.private_key \in 2..(ex_dh.p - 2))
        => /\ alice.shared_secret = bob.shared_secret
           /\ alice.shared_secret \in 0..(ex_dh.p - 1)
           /\ compute_shared_secret(ex_dh, alice.private_key,
                                    compute_public_key(ex_dh, bob.private_key))
                = compute_shared_secret(ex_dh, bob.private_key,
                                        compute_public_key(ex_dh, alice.private_key))

\* an exchange over the extended parameters with the keys 7 and p - 2 is done
C16_Witness ==
    /\ ex_pc = "done" /\ ex_dh = [p |-> LargeP, g |-> LargeG]
    /\ alice.private_key = 7 /\ bob.private_key = LargeP - 2
    /\ alice.shared_secret = bob.shared_secret

\* C17: generate_private_key returns an exponent in [2, p-2] whenever it
\* returns, and fails with the empty-range error for every p < 5.
C17_PrivateKeyRange ==
    /\ ex_pc \in {"alice", "ready", "alice_done", "done"}
          => alice.private_key \in 2..(ex_dh.p - 2)
    /\ ex_pc \in {"ready", "alice_done", "done"}
          => bob.private_key \in 2..(ex_dh.p - 2)
    /\ (ex_pc \notin {"none", "constructed"} /\ ex_dh.p < 5)
          => ex_pc = "raised" /\ ex_error = EmptyRange

\* C18: constructing DiffieHellman(p, g) fails when p is not prime or p <= 3.
C18_InvalidModulusRejected ==
    ex_pc # "none" => isprime(ex_dh.p) /\ ex_dh.p > 3

-----------------------------------------------------------------------------
(* Properties of repeated runs and of the rounds *)

\* C19: a sequential run over the same participants in the same order
\* returns what the run before returned, and what the manual fold of
\* demo_step_by_step gave.
C19_SequentialDeterministic ==
    (~IsCircular(impl) /\ pc = "done")
        => /\ previous_result # None => result = previous_result
           /\ current # None => result = current

\* a run of three participants after the manual fold and an earlier run
C19_Witness ==
    /\ impl = "Npart" /\ pc = "done" /\ Len(participants) = 3
    /\ current # None /\ previous_result # None
    /\ result = current /\ result = previous_result /\ result = ReferenceSecret

\* the last round whose values are in current_values
CompletedRound ==
    IF (pc = "round" /\ idx > 1) \/ pc = "round_end" THEN round_num - 1 ELSE round_num

RECURSIVE WindowProduct(_, _, _)
\* the product of the private keys of participants i, i-1, ..., i-r (mod n)
WindowProduct(ps, i, r) ==
    LET key == ps[((i - 1 - r) % Len(ps)) + 1].private_key
    IN IF r = 0 THEN key ELSE key * WindowProduct(ps, i, r - 1)

\* g^(product of the keys of i, i-1, ..., i-r) mod p
WindowValue(i, r) == RepeatedProduct(dh.g, WindowProduct(participants, i, r), dh.p)

\* C20: after round r of the circular protocol the value at position i is
\* g^(product of the private keys of participants i, i-1, ..., i-r mod n) mod p,
\* and the outputs of the round under way are computed from position
\* (i-1) mod n of the round before.
C20_RoundValues ==
    (IsCircular(impl) /\ pc \in {"round", "round_end", "verify", "done"})
        => /\ 0 <= CompletedRound
           /\ Len(participants) > 0 => CompletedRound <= Len(participants) - 1
           /\ Len(current_values) = Len(participants)
           /\ \A i \in 1..Len(current_values) :
                 current_values[i] = WindowValue(i, CompletedRound)
           /\ pc \in {"round", "round_end"} =>
                 \A i \in 1..Len(new_values) :
                    /\ new_values[i] = WindowValue(i, CompletedRound + 1)
                    /\ new_values[i] =
                          ModPow(current_values[((i - 2) % Len(participants)) + 1],
                                 participants[i].private_key, dh.p)

\* three participants, the second round computed and the first still held
C20_Witness ==
    /\ impl = "NpartRound" /\ pc = "round_end" /\ round_num = 2
    /\ PrivateKeysOf(participants) = <<5, 7, 11>>
    /\ current_values[1] = RepeatedProduct(dh.g, 5 * 11, dh.p)
    /\ current_values[2] = RepeatedProduct(dh.g, 7 * 5, dh.p)
    /\ Len(new_values) = 3
    /\ new_values[3] = RepeatedProduct(dh.g, 11 * 7 * 5, dh.p)

RECURSIVE RoundInOrder(_, _, _, _, _)
\* the outputs of one round when the applications are executed in the order
\* given: the k-th executed is that of participant order[k], whose output
\* goes to its own position; ps is the participant list as the applications
\* before have left it, fresh the outputs captured before
RoundInOrder(values, ps, order, k, fresh) ==
    IF k > Len(order) THEN fresh
    ELSE LET i == order[k]
             input_value == InputValue(values, fresh, i, Len(ps))
             output_value == apply_key(dh, ps[i], input_value)
         IN RoundInOrder(values, [ps EXCEPT ![i] = Counted(impl, ps[i])], order,
                         k + 1,
                         [j \in DOMAIN fresh \cup {i} |->
                             IF j = i THEN output_value ELSE fresh[j]])

\* the orders in which the applications of a round can be executed
ExecutionOrders(len) ==
    {order \in [1..len -> 1..len] :
        \A a, b \in 1..len : a # b => order[a] # order[b]}

\* C21: the applications of one circular round read only the previous
\* round's vector: executed in any order, they give the vector the run
\* captured.
C21_RoundOrderIndependent ==
    (IsCircular(impl) /\ pc = "round_end")
        => \A order \in ExecutionOrders(Len(participants)) :
              LET out == RoundInOrder(current_values, participants, order, 1, <<>>)
              IN /\ DOMAIN out = DOMAIN new_values
                 /\ \A i \in DOMAIN out : out[i] = new_values[i]

\* a round of three participants with distinct keys has been captured, and
\* executing it backwards gives the captured vector; the values differ
C21_Witness ==
    /\ impl = "Circular34" /\ pc = "round_end" /\ round_num = 1
    /\ PrivateKeysOf(participants) = <<5, 7, 11>>
    /\ RoundInOrder(current_values, participants, <<3, 2, 1>>, 1, <<>>)[2] = new_values[2]
    /\ new_values[1] # new_values[2]

\* where a circular run of n >= 2 participants stands
RoundsInRange ==
    (IsCircular(impl) /\ Len(participants) >= 2)
        => /\ pc = "round" => /\ round_num \in 0..(Len(participants) - 1)
                              /\ idx = 1 => round_num <= Len(participants) - 2
           /\ pc = "round_end" => /\ round_num \in 1..(Len(participants) - 1)
                                  /\ Len(new_values) = Len(participants)
           /\ pc \in {"verify", "done"} => round_num = Len(participants) - 1

\* the round number changes by the start of a run (round 0) or by the first
\* application of the next round, taken when the previous round is complete
RoundsInOrder ==
    (IsCircular(impl) /\ Len(participants) >= 2 /\ round_num' # round_num)
        => \/ /\ NoRun /\ round_num' = 0
              /\ pc' = "round" => Len(current_values') = Len(participants)
           \/ /\ pc = "round" /\ idx = 1 /\ new_values = <<>>
              /\ Len(current_values) = Len(participants)
              /\ round_num' = round_num + 1

\* a circular run under way ends with a result
CircularRunEnds ==
    (IsCircular(impl) /\ Len(participants) >= 2 /\ pc \in {"round", "round_end", "verify"})
        ~> (pc = "done" /\ result \in 0..(dh.p - 1))

\* C22: a circular run with n >= 2 participants executes round 0 and then
\* exactly the rounds 1, ..., n-1 in increasing order, a round starting only
\* after all n outputs of the round before are captured, and then ends with
\* a result.
C22_RoundsOrderedAndTerminate ==
    /\ []RoundsInRange
    /\ [][RoundsInOrder]_vars
    /\ CircularRunEnds

\* a circular run of three participants has ended after round 2
C22_Witness ==
    /\ impl = "NpartRound" /\ pc = "done" /\ Len(participants) = 3
    /\ round_num = 2 /\ result = ReferenceSecret

InField(v) == v \in 0..(PRIME - 1)

\* a value of the group of the protocols
InGroup(v) == v \in 0..(dh.p - 1)

\* C24: every field value produced is reduced into [0, p): the share
\* values, the result of reconstruct_secret, the public keys, and every
\* value held in a round of the sequential or circular protocol after at
\* least one exponentiation.
C24_ValuesReduced ==
    /\ \A i \in 1..Len(shares) : InField(shares[i][2])
    /\ sh_pc \in {"reconstructed", "main_done"} => InField(recovered_secret)
    /\ \A i \in 1..Len(participants) : InGroup(participants[i].public_key)
    /\ \A i \in 1..Len(current_values) : InGroup(current_values[i])
    /\ \A i \in 1..Len(new_values) : InGroup(new_values[i])
    /\ (pc \in {"fold", "return"} /\ idx > 1) => InGroup(current_value)
    /\ (pc = "manual" /\ idx > 1) => InGroup(current)
    /\ (pc = "done" /\ Len(participants) > 0 /\ result # None) => InGroup(result)

\* a secret recovered from overlapping values above PRIME / 2, whose
\* unreduced sum exceeds PRIME
C24_Witness ==
    /\ sh_pc = "reconstructed" /\ t = 3 /\ Len(selected_shares) = 3
    /\ secret = 2088 /\ recovered_secret = 2088
    /\ \E i \in 1..Len(shares) : shares[i][2] > PRIME \div 2
    /\ SumTerms(poly, 2, PRIME, 1) >= PRIME

\* a circular round under way, its values reduced
C24_WitnessRound ==
    /\ IsCircular(impl) /\ pc = "round_end" /\ Len(participants) = 3
    /\ \A i \in 1..3 : InGroup(new_values[i]) /\ new_values[i] > 1

\* what one call of apply_key on participant idx does, for the input and the
\* output given
ApplyKeyEffect(input_value, output_value) ==
    /\ output_value = RepeatedProduct(input_value, participants[idx].private_key, dh.p)
    /\ Len(participants') = Len(participants)
    /\ participants'[idx].operations_count = participants[idx].operations_count + 1
    /\ participants'[idx].private_key = participants[idx].private_key
    /\ participants'[idx].public_key = participants[idx].public_key
    /\ \A j \in 1..Len(participants) : j # idx => participants'[j] = participants[j]
    /\ dh' = dh

\* a step of a scriptBench run that calls apply_key
ApplyKeyCalled ==
    /\ CountsOperations(impl)
    /\ \/ pc = "round" /\ Len(new_values') = Len(new_values) + 1
       \/ pc = "fold" /\ idx' = idx + 1

\* C25: apply_key(input) on a participant returns input^private_key mod p,
\* increments that participant's operations_count by exactly 1, and leaves
\* its keys and every other participant as they were.
C25_ApplyKeyFrame ==
    [][ApplyKeyCalled =>
          IF pc = "round"
          THEN ApplyKeyEffect(current_values[((idx - 2) % Len(participants)) + 1],
                              new_values'[idx])
          ELSE ApplyKeyEffect(current_value, current_value')]_vars

\* the second of three participants of a sequential run has applied its key:
\* its counter is 1, as the first one's, the third one's still 0
C25_Witness ==
    /\ impl = "BenchSequential" /\ pc = "fold" /\ idx = 3
    /\ PrivateKeysOf(participants) = <<5, 7, 11>>
    /\ participants[1].operations_count = 1
    /\ participants[2].operations_count = 1
    /\ participants[3].operations_count = 0
    /\ current_value = RepeatedProduct(dh.g, 5 * 7, dh.p)

\* C26: with at least 2 participants, what get_shared_secret returned since
\* the last add_participant is the secret of the participants registered:
\* g^(product of their private keys) mod p.
C26_SharedSecretOfRegistered ==
    (impl = "Npart" /\ Len(participants) >= 2 /\ shared_secret # None)
        => shared_secret = ReferenceSecret

\* the operations a run of the class over len participants takes
ExpectedOperations(im, len) == IF IsCircular(im) THEN len * (len - 1) ELSE len

\* C27: a run_protocol call on a scriptBench protocol object that follows
\* another one, the participant list unchanged, reports the total of a
\* single run (n*(n-1) circular, n sequential) and the same secret.
C27_CountsDoNotAccumulate ==
    (CountsOperations(impl) /\ pc = "done" /\ previous_result \in 0..(dh.p - 1))
        => /\ total_operations = ExpectedOperations(impl, Len(participants))
           /\ total_operations = SumOperations(participants, 1)
           /\ result = previous_result

\* a circular run of three participants that followed another one
C27_Witness ==
    /\ impl = "BenchCircular" /\ pc = "done" /\ Len(participants) = 3
    /\ previous_result \in 0..(dh.p - 1) /\ result = previous_result
    /\ total_operations = 6

====
